---- MODULE Spec2Model ----
\* mathvis: the Screen2D context, the Vector2D animated object and the
\* fork-join frame engine of Vector2D::move_along_parametric (Spec, SpecAlg;
\* SpecFair adds fair scheduling, SpecStages is rotate_then_scale,
\* SpecThreads is two calling threads), the world-to-pixel mapping
\* (SpecPixels) and the functions of Matrix and Vector (SpecLin).
\*
\* Numbers.  Object coordinates and axis bounds are small integers.  A value
\* computed in f64 (a sample of a parametric function) is a record
\* [nan, n, d]: either NaN or the rational n/d with d > 0.
\* Option<T> is a tuple: << >> is None, <<v>> is Some(v).
EXTENDS Integers, Sequences, FiniteSets, TLC

\* ---------------------------------------------------------------- bounds
\* largest frame count of one call
MaxFrames == 3
\* cap on the frame counter
MaxCounter == 3
\* cap on the frame counter for the two stages of rotate_then_scale
MaxStageCounter == 4
\* cap on the absolute value of a coordinate produced by the object algebra
MaxCoord == 2
\* largest absolute value of an entry of a matrix or vector of the
\* linear-algebra layer
MaxEntry == 2

\* ---------------------------------------------------------------- inputs
\* the threads that call animation methods
Callers == {"main", "second"}
\* the thread of a program with one thread
MainThread == {"main"}
Objs == {"v", "w"}
EngineObjs == {"v"}
\* axis ranges handed to Screen2D::new / change_dimensions; <<1, 1>> and
\* <<2, -2>> are invalid
XRanges == {<<-2, 2>>, <<-1, 1>>, <<1, 1>>}
YRanges == {<<-2, 2>>, <<2, -2>>}
\* width/height pairs: one supported resolution and one that is not
Resolutions == {<<1920, 1080>>, <<100, 100>>}
FpsInputs == {1, 2}
\* coordinates handed to Vector2D::new
Points == {<<1, 1>>, <<2, 0>>}
Scalars == {2}
\* matrices handed to Matrix * Vector2D (row-major); the last one is 1x2
Matrices == {<<<<1, 0>>, <<0, 1>>>>, <<<<0, -1>>, <<1, 0>>>>, <<<<1, 1>>>>}
\* matrices handed to rotate_then_scale: the identity, a matrix that the
\* integer decomposition accepts, and a 1x1 matrix
PolarMatrices == {<<<<1, 0>>, <<0, 1>>>>, <<<<2, 0>>, <<1, 2>>>>, <<<<1>>>>}
\* angles handed to Vector2D::rotate, in quarter turns
RotateAngles == {1, 2}

\* ---------------------------------------------------------------- state
VARIABLES
    screen,     \* Option<Screen2D>: the value inside the one Arc<Mutex<Screen2D>>
    poisoned,   \* poison flag of that Mutex
    lock,       \* holder of that Mutex: << >> free, <<c, i>> frame task i of caller c,
                \* <<"user">> a user thread that never releases it
    objs,       \* the Vector2D objects of the program
    result,     \* what the last user-level operation returned
    files,      \* indices n of the files {save_directory}/tmp/frame_{n}.png on disk
    call,       \* per caller: the activation record of move_along_parametric
    tasks,      \* per caller: the position of every frame_generator closure
    completed_frames, \* per caller: Arc<Mutex<usize>>
    error_flag, \* per caller: Arc<Mutex<bool>>
    written,    \* per caller: indices saved by the tasks of the call in progress
    rts,        \* per caller: Option of the activation of rotate_then_scale
    rewrites,   \* some save has overwritten a frame file that was already there
    clean       \* every animation call so far was a successful one and the
                \* frame counter was only moved by animation calls

engine == <<files, call, tasks, completed_frames, error_flag, written,
            rts, rewrites, clean>>
vars == <<screen, poisoned, lock, objs, result, engine>>

Scr == screen[1]
NoObj == [live |-> FALSE, x |-> 0, y |-> 0, context |-> << >>]
\* arg is the integer argument of the operation, where it has one
Res(op, obj, res) ==
    [op |-> op, obj |-> obj, res |-> res, arg |-> 0, completed |-> 0, total |-> 0]

\* ---------------------------------------------------------------- numbers
NaN == [nan |-> TRUE, n |-> 0, d |-> 1]
Q(n, d) == [nan |-> FALSE, n |-> n, d |-> d]
\* Number::to_f64 on an integer coordinate
to_f64(v) == Q(v, 1)

\* util::in_axis_range: start <= val && val <= end, false for NaN
in_axis_range(val, range) ==
    /\ ~val.nan
    /\ range[1] * val.d <= val.n
    /\ val.n <= range[2] * val.d

\* Quality::new: Some(quality) for the four supported pairs, None otherwise
Quality_new(x, y) ==
    CASE x = 854 /\ y = 480 -> <<"LOW">>
      [] x = 1280 /\ y = 720 -> <<"MEDIUM">>
      [] x = 1920 /\ y = 1080 -> <<"HIGH">>
      [] x = 3840 /\ y = 2160 -> <<"ULTRA">>
      [] OTHER -> << >>

\* ---------------------------------------------------------------- Screen2D
\* Screen2D::new: Some(screen) iff xstart < xend && ystart < yend
Screen2D_new(xr, yr, fps, width, height) ==
    IF xr[1] < xr[2] /\ yr[1] < yr[2]
    THEN <<[x_axis |-> xr, y_axis |-> yr, current_frame |-> 0,
            fps |-> fps, width |-> width, height |-> height]>>
    ELSE << >>

\* change_dimensions with || in place of &&
change_dimensions_or(s, xr, yr) ==
    IF xr[1] < xr[2] \/ yr[1] < yr[2]
    THEN [ok |-> TRUE, s |-> [s EXCEPT !.x_axis = xr, !.y_axis = yr]]
    ELSE [ok |-> FALSE, s |-> s]

\* Screen2D::change_dimensions: [ok, the screen afterwards]
change_dimensions(s, xr, yr) ==
    IF xr[1] < xr[2] /\ yr[1] < yr[2]
    THEN [ok |-> TRUE, s |-> [s EXCEPT !.x_axis = xr, !.y_axis = yr]]
    ELSE [ok |-> FALSE, s |-> s]

\* change_current_frame without the comparison
change_current_frame_unchecked(s, val) ==
    [ok |-> TRUE, s |-> [s EXCEPT !.current_frame = val]]

\* Screen2D::change_current_frame: [ok, the screen afterwards]
change_current_frame(s, val) ==
    IF val > s.current_frame
    THEN [ok |-> TRUE, s |-> [s EXCEPT !.current_frame = val]]
    ELSE [ok |-> FALSE, s |-> s]

\* ScreenLike::can_contain on the coordinates (x, y) of a Show2D object
can_contain(s, x, y) ==
    in_axis_range(x, s.x_axis) /\ in_axis_range(y, s.y_axis)

\* no thread is inside an animation call
Idle == \A c \in Callers : call[c].pc = "idle" /\ rts[c] = << >>

\* the program builds its one context
ScreenNew(xr, yr, fps, wh) ==
    /\ screen = << >>
    /\ Idle
    /\ screen' = Screen2D_new(xr, yr, fps, wh[1], wh[2])
    /\ result' = Res("Screen2D::new", "-",
                     IF screen' = << >> THEN "None" ELSE "Some")
    /\ UNCHANGED <<poisoned, lock, objs, engine>>

\* the user changes the axis ranges of the context
ChangeDimensions(xr, yr) ==
    /\ screen # << >>
    /\ Idle
    /\ lock = << >>
    /\ LET r == change_dimensions(Scr, xr, yr) IN
         /\ screen' = <<r.s>>
         /\ result' = Res("change_dimensions", "-", IF r.ok THEN "Ok" ELSE "Err")
    /\ UNCHANGED <<poisoned, lock, objs, engine>>

\* ---------------------------------------------------------------- Vector2D
\* Vector2D::new: an object without a context
Vector2D_new(x, y) == [live |-> TRUE, x |-> x, y |-> y, context |-> << >>]

NewVector(o, p) ==
    /\ Idle
    /\ objs' = [objs EXCEPT ![o] = Vector2D_new(p[1], p[2])]
    /\ result' = Res("Vector2D::new", o, "Ok")
    /\ UNCHANGED <<screen, poisoned, lock, engine>>

\* Vector2D::add_context.  context.lock().unwrap() panics on a poisoned mutex.
AddContext(o) ==
    /\ Idle
    /\ objs[o].live
    /\ screen # << >>
    /\ lock = << >>
    /\ IF poisoned
       THEN /\ result' = Res("add_context", o, "panic")
            /\ UNCHANGED objs
       ELSE IF ~can_contain(Scr, to_f64(objs[o].x), to_f64(objs[o].y))
       THEN /\ result' = Res("add_context", o, "Err")
            /\ UNCHANGED objs
       ELSE /\ result' = Res("add_context", o, "Ok")
            /\ objs' = [objs EXCEPT ![o].context = <<1>>]
    /\ UNCHANGED <<screen, poisoned, lock, engine>>

\* Vector2D::draw on an image of size wh.  draw_vector locks the context
\* (unwrap) and then unwraps Quality::new(img.width(), img.height()) while it
\* holds the guard, so that panic poisons the mutex.
Draw(o, wh) ==
    /\ Idle
    /\ objs[o].live
    /\ IF objs[o].context = << >>
       THEN /\ result' = Res("draw", o, "ErrNoContext")
            /\ UNCHANGED poisoned
       ELSE /\ lock = << >>
            /\ IF poisoned
               THEN /\ result' = Res("draw", o, "panic")
                    /\ UNCHANGED poisoned
               ELSE IF Quality_new(wh[1], wh[2]) = << >>
               THEN /\ result' = Res("draw", o, "panic")
                    /\ poisoned' = TRUE
               ELSE /\ result' = Res("draw", o, "Ok")
                    /\ UNCHANGED poisoned
    /\ UNCHANGED <<screen, lock, objs, engine>>

InCoord(x) == -MaxCoord <= x /\ x <= MaxCoord

\* Add for Vector2D.  With two contexts the closure evaluates
\* *a.lock().unwrap() != *b.lock().unwrap(): the first guard is still alive
\* when the second lock is taken.  Both operands here share the one mutex, and
\* std::sync::Mutex leaves relocking by the owner unspecified: the second lock
\* never returns, it deadlocks or panics (a panic unwinds through the first
\* guard and poisons the mutex).
Add(a, b) ==
    /\ Idle
    /\ objs[a].live /\ objs[b].live
    /\ InCoord(objs[a].x + objs[b].x) /\ InCoord(objs[a].y + objs[b].y)
    /\ IF objs[a].context # << >> /\ objs[b].context # << >>
       THEN /\ lock = << >>
            /\ IF poisoned
               THEN /\ result' = Res("add", a, "panic")
                    /\ UNCHANGED <<poisoned, lock>>
               ELSE \/ /\ result' = Res("add", a, "deadlock")
                       /\ lock' = <<"user">>
                       /\ UNCHANGED poisoned
                    \/ /\ result' = Res("add", a, "panic")
                       /\ poisoned' = TRUE
                       /\ UNCHANGED lock
            /\ UNCHANGED objs
       ELSE /\ objs' = [objs EXCEPT ![a] =
                          [live |-> TRUE, x |-> objs[a].x + objs[b].x,
                           y |-> objs[a].y + objs[b].y,
                           context |-> objs[a].context]]
            /\ result' = Res("add", a, "Ok")
            /\ UNCHANGED <<poisoned, lock>>
    /\ UNCHANGED <<screen, engine>>

\* Mul<U> for Vector2D: the scaled vector keeps the context
MulScalar(o, scalar) ==
    /\ Idle
    /\ objs[o].live
    /\ InCoord(scalar * objs[o].x) /\ InCoord(scalar * objs[o].y)
    /\ objs' = [objs EXCEPT ![o] =
                  [live |-> TRUE, x |-> scalar * objs[o].x,
                   y |-> scalar * objs[o].y, context |-> objs[o].context]]
    /\ result' = Res("mul_scalar", o, "Ok")
    /\ UNCHANGED <<screen, poisoned, lock, engine>>

\* Matrix::get_dimensions
get_dimensions(m) == <<Len(m), Len(m[1])>>

\* Mul<Vector2D<T>> for Matrix<T>: [ok, the product]; the product keeps
\* the context of the vector
matrix_mul_vector2d(m, v) ==
    IF get_dimensions(m) # <<2, 2>>
    THEN [ok |-> FALSE, v |-> v]
    ELSE [ok |-> TRUE,
          v |-> [live |-> TRUE,
                 x |-> m[1][1] * v.x + m[1][2] * v.y,
                 y |-> m[2][1] * v.x + m[2][2] * v.y,
                 context |-> v.context]]

MatMul(m, o) ==
    /\ Idle
    /\ objs[o].live
    /\ LET r == matrix_mul_vector2d(m, objs[o]) IN
         /\ InCoord(r.v.x) /\ InCoord(r.v.y)
         /\ objs' = [objs EXCEPT ![o] = r.v]
         /\ result' = Res("matrix_mul", o, IF r.ok THEN "Ok" ELSE "Err")
    /\ UNCHANGED <<screen, poisoned, lock, engine>>

\* ---------------------------------------------------------------- f64
\* arithmetic on [nan, n, d]; NaN propagates, 0/0 is NaN
QAdd(a, b) ==
    IF a.nan \/ b.nan THEN NaN ELSE Q(a.n * b.d + b.n * a.d, a.d * b.d)
QSub(a, b) ==
    IF a.nan \/ b.nan THEN NaN ELSE Q(a.n * b.d - b.n * a.d, a.d * b.d)
QMul(a, b) ==
    IF a.nan \/ b.nan THEN NaN ELSE Q(a.n * b.n, a.d * b.d)
\* i as f64 / m as f64 for integers i >= 0, m >= 0 (0/0 is NaN; i/0 with
\* i > 0 does not occur: i < frames, m = frames - 1)
QDivInt(i, m) == IF m = 0 THEN NaN ELSE Q(i, m)

\* cos and sin of an angle given in quarter turns (pi/2); the model only
\* evaluates them on whole numbers of quarter turns
Cos(t) ==
    IF t.nan THEN NaN
    ELSE LET k == (t.n \div t.d) % 4 IN
         to_f64(CASE k = 0 -> 1 [] k = 1 -> 0 [] k = 2 -> -1 [] OTHER -> 0)
Sin(t) ==
    IF t.nan THEN NaN
    ELSE LET k == (t.n \div t.d) % 4 IN
         to_f64(CASE k = 0 -> 0 [] k = 1 -> 1 [] k = 2 -> 0 [] OTHER -> -1)

\* the closures handed to move_along_parametric, applied to t:
\*   "const"  a user closure that ignores t
\*   "lerp"   the closure of move_to
\*   "rotate" the closure of rotate (angles in quarter turns)
Parametric(param, t) ==
    CASE param.kind = "const" ->
           <<to_f64(param.to[1]), to_f64(param.to[2])>>
      [] param.kind = "lerp" ->
           <<QAdd(QMul(QSub(to_f64(1), t), to_f64(param.from[1])),
                  QMul(t, to_f64(param.to[1]))),
             QAdd(QMul(QSub(to_f64(1), t), to_f64(param.from[2])),
                  QMul(t, to_f64(param.to[2])))>>
      [] OTHER ->
           LET dx == to_f64(param.from[1] - param.to[1])
               dy == to_f64(param.from[2] - param.to[2])
           IN <<QAdd(QSub(QMul(dx, Cos(t)), QMul(dy, Sin(t))),
                     to_f64(param.to[1])),
                QAdd(QAdd(QMul(dx, Sin(to_f64(param.angle))),
                          QMul(dy, Cos(t))),
                     to_f64(param.to[2]))>>

Param(kind, from, to, angle) ==
    [kind |-> kind, from |-> from, to |-> to, angle |-> angle]

\* let t = t_min + (i as f64 / (frames - 1) as f64) * (t_max - t_min)
SampleTime(i, frames, t_min, t_max) ==
    QAdd(to_f64(t_min), QMul(QDivInt(i, frames - 1), to_f64(t_max - t_min)))

\* let (x, y) = shared_parametric(t) in task i of the call cl
Sample(cl, i) ==
    Parametric(cl.param, SampleTime(i, cl.frames, cl.t_min, cl.t_max))

\* ---------------------------------------------------------------- f32
\* f32/f64 values that may be infinite: [nan, n, d] with d = 0 and n = 1 or
\* n = -1 is +inf or -inf
Inf(sign) == [nan |-> FALSE, n |-> sign, d |-> 0]
IsInf(a) == ~a.nan /\ a.d = 0
Abs(n) == IF n < 0 THEN -n ELSE n
Sign(n) == IF n < 0 THEN -1 ELSE 1

\* f32::abs
FAbs(a) == IF a.nan THEN NaN ELSE [nan |-> FALSE, n |-> Abs(a.n), d |-> a.d]
\* unary minus
FNeg(a) == IF a.nan THEN NaN ELSE [nan |-> FALSE, n |-> -a.n, d |-> a.d]

\* a + b: inf + -inf is NaN
FAdd(a, b) ==
    IF a.nan \/ b.nan THEN NaN
    ELSE IF IsInf(a) /\ IsInf(b) THEN (IF a.n = b.n THEN a ELSE NaN)
    ELSE IF IsInf(a) THEN a
    ELSE IF IsInf(b) THEN b
    ELSE Q(a.n * b.d + b.n * a.d, a.d * b.d)

\* a * b: 0 * inf is NaN
FMul(a, b) ==
    IF a.nan \/ b.nan THEN NaN
    ELSE IF IsInf(a) \/ IsInf(b)
         THEN (IF a.n = 0 \/ b.n = 0 THEN NaN ELSE Inf(Sign(a.n) * Sign(b.n)))
    ELSE Q(a.n * b.n, a.d * b.d)

\* a / b: x / 0 is inf for x # 0, 0 / 0 and inf / inf are NaN (the zero
\* divisors of the model are sums of absolute values, that is +0)
FDiv(a, b) ==
    IF a.nan \/ b.nan THEN NaN
    ELSE IF IsInf(a) THEN (IF IsInf(b) THEN NaN ELSE Inf(a.n * Sign(b.n)))
    ELSE IF IsInf(b) THEN to_f64(0)
    ELSE IF b.n = 0 THEN (IF a.n = 0 THEN NaN ELSE Inf(Sign(a.n)))
    ELSE Q(a.n * b.d * Sign(b.n), a.d * Abs(b.n))

\* a == b on floats: false when one side is NaN
FEq(a, b) ==
    /\ ~a.nan /\ ~b.nan
    /\ IF IsInf(a) \/ IsInf(b)
       THEN IsInf(a) /\ IsInf(b) /\ a.n = b.n
       ELSE a.n * b.d = b.n * a.d

\* ---------------------------------------------------------------- Number
\* Number for i32 (and i64): sqrt is (self as f64).sqrt() as i32, the integer
\* part of the root; the root of a negative number is NaN, which casts to 0
sqrt_int(x) ==
    IF x < 0 THEN 0
    ELSE CHOOSE r \in 0..x : r * r <= x /\ (r + 1) * (r + 1) > x

\* a / b on i32 for b # 0: the quotient is truncated towards zero
div_int(a, b) ==
    IF (a >= 0) = (b > 0) THEN Abs(a) \div Abs(b) ELSE -(Abs(a) \div Abs(b))

\* ---------------------------------------------------------------- Vector
RECURSIVE sum_squares(_, _)
\* fold(T::zero(), |acc, a| acc + *a * *a) over the first k values
sum_squares(v, k) ==
    IF k = 0 THEN 0 ELSE sum_squares(v, k - 1) + v[k] * v[k]

\* Vector::norm on an integer vector
norm(v) == sqrt_int(sum_squares(v, Len(v)))

\* Vector::normalize on an integer vector: Err for norm 0, else every value
\* divided by the norm
normalize(v) ==
    IF norm(v) = 0
    THEN [kind |-> "Err", v |-> << >>]
    ELSE [kind |-> "Ok", v |-> [i \in 1..Len(v) |-> div_int(v[i], norm(v))]]

\* ---------------------------------------------------------------- Matrix
\* Matrix::identity: None for dimension 0
identity(dimensions) ==
    IF dimensions = 0 THEN << >>
    ELSE <<[i \in 1..dimensions |->
              [j \in 1..dimensions |-> IF i = j THEN 1 ELSE 0]]>>

RECURSIVE dot_row_col(_, _, _, _, _)
\* sum += a[i][k] * b[k][j] for the first k indices
dot_row_col(a, b, i, j, k) ==
    IF k = 0 THEN 0 ELSE dot_row_col(a, b, i, j, k - 1) + a[i][k] * b[k][j]

RECURSIVE dot_row_row(_, _, _, _, _)
dot_row_row(a, b, i, j, k) ==
    IF k = 0 THEN 0 ELSE dot_row_row(a, b, i, j, k - 1) + a[i][k] * b[j][k]

\* the product with the right operand read by rows
matrix_mul_transposed(a, b) ==
    IF get_dimensions(a)[2] # get_dimensions(b)[1]
    THEN [ok |-> FALSE, m |-> << >>]
    ELSE [ok |-> TRUE,
          m |-> [i \in 1..get_dimensions(a)[1] |->
                   [j \in 1..get_dimensions(b)[2] |->
                      dot_row_row(a, b, i, j, get_dimensions(a)[2])]]]

\* Mul<Matrix<U>> for Matrix<T>: Err on wrong dimensions, else the product
matrix_mul(a, b) ==
    IF get_dimensions(a)[2] # get_dimensions(b)[1]
    THEN [ok |-> FALSE, m |-> << >>]
    ELSE [ok |-> TRUE,
          m |-> [i \in 1..get_dimensions(a)[1] |->
                   [j \in 1..get_dimensions(b)[2] |->
                      dot_row_col(a, b, i, j, get_dimensions(a)[2])]]]

\* Matrix::determinant of a 1x1 or 2x2 matrix: the expansion along the
\* first row, + values[0][0] * det [d] - values[0][1] * det [c]
determinant(m) ==
    IF get_dimensions(m)[1] # get_dimensions(m)[2]
    THEN [ok |-> FALSE, v |-> 0]
    ELSE IF get_dimensions(m)[1] = 1
    THEN [ok |-> TRUE, v |-> m[1][1]]
    ELSE [ok |-> TRUE, v |-> m[1][1] * m[2][2] - m[1][2] * m[2][1]]

\* Matrix::invert_2d for T = i32 and T = f64.  T::one() / determinant: on
\* i32 a zero determinant is a division by zero (panic) and the quotient is
\* truncated; on f64 it is inf and the call returns Ok.
invert_2d(T, m) ==
    IF get_dimensions(m) # <<2, 2>>
    THEN [kind |-> "Err", m |-> << >>]
    ELSE LET adj == <<<<m[2][2], -m[1][2]>>, <<-m[2][1], m[1][1]>>>>
             det == determinant(m).v
         IN IF T = "i32"
            THEN IF det = 0
                 THEN [kind |-> "panic", m |-> << >>]
                 ELSE [kind |-> "Ok",
                       m |-> [i \in 1..2 |-> [j \in 1..2 |->
                                adj[i][j] * div_int(1, det)]]]
            ELSE [kind |-> "Ok",
                  m |-> [i \in 1..2 |-> [j \in 1..2 |->
                           FMul(to_f64(adj[i][j]),
                                FDiv(to_f64(1), to_f64(det)))]]]

\* util::quadsolve on i32: T::from_f64(4.0) is 4, T::from_f64(2.0) is 2
quadsolve(a, b, c) ==
    LET delta == b * b - a * 4 * c IN
      <<div_int(-b + sqrt_int(delta), a * 2),
        div_int(-b - sqrt_int(delta), a * 2)>>

\* Matrix::eigenvalues_2d on i32
eigenvalues_2d(m) ==
    IF get_dimensions(m) # <<2, 2>>
    THEN [ok |-> FALSE, l |-> <<0, 0>>]
    ELSE [ok |-> TRUE,
          l |-> quadsolve(1, -m[1][1] - m[2][2],
                          -(m[1][2] * m[2][1]) + m[1][1] * m[2][2])]

\* the two vectors eigenvectors_2d normalizes: [l1 - a, b] and [l2 - d, c]
eigen_candidates(m) ==
    LET l == eigenvalues_2d(m).l IN
      <<<<l[1] - m[1][1], m[1][2]>>, <<l[2] - m[2][2], m[2][1]>>>>

\* Matrix::eigenvectors_2d on i32.  values[0][1], values[1][0] and
\* values[1][1] are read before the dimensions are checked (index out of
\* bounds on a matrix with one row or one column), and both normalize()
\* results are unwrapped.
eigenvectors_2d(m) ==
    IF get_dimensions(m)[1] < 2 \/ get_dimensions(m)[2] < 2
    THEN [kind |-> "panic", v |-> << >>]
    ELSE IF ~eigenvalues_2d(m).ok
    THEN [kind |-> "Err", v |-> << >>]
    ELSE LET v1 == normalize(eigen_candidates(m)[1])
             v2 == normalize(eigen_candidates(m)[2])
         IN IF v1.kind = "Err" \/ v2.kind = "Err"
            THEN [kind |-> "panic", v |-> << >>]
            ELSE [kind |-> "Ok", v |-> <<v1.v, v2.v>>]

\* Matrix::transpose
transpose(m) ==
    [i \in 1..get_dimensions(m)[2] |-> [j \in 1..get_dimensions(m)[1] |-> m[j][i]]]

\* Matrix::svd_2d on i32: [kind, u, sigma, v].  Err when A^T A is not 2x2;
\* a panic of eigenvectors_2d or of invert_2d unwinds through it.
svd_2d(m) ==
    LET none == [kind |-> "Err", u |-> << >>, sigma |-> << >>, v |-> << >>]
        transpose_a_by_a == matrix_mul(transpose(m), m)
    IN IF ~transpose_a_by_a.ok THEN none
       ELSE IF ~eigenvalues_2d(transpose_a_by_a.m).ok THEN none
       ELSE LET l == eigenvalues_2d(transpose_a_by_a.m).l
                sigma == <<<<sqrt_int(l[1]), 0>>, <<0, sqrt_int(l[2])>>>>
                ev == eigenvectors_2d(transpose_a_by_a.m)
            IN IF ev.kind # "Ok" THEN [none EXCEPT !.kind = ev.kind]
               ELSE LET u == <<<<ev.v[1][1], ev.v[2][1]>>,
                               <<ev.v[1][2], ev.v[2][2]>>>>
                        v == invert_2d("i32", u)
                    IN IF v.kind # "Ok" THEN [none EXCEPT !.kind = v.kind]
                       ELSE [kind |-> "Ok", u |-> u, sigma |-> sigma, v |-> v.m]

\* Matrix::polar_decomposition_2d on i32: [kind, q, s] with
\* s = u * sigma * v and q = self * s^-1
polar_decomposition_2d(m) ==
    LET none == [kind |-> "Err", q |-> << >>, s |-> << >>]
        svd == svd_2d(m)
    IN IF svd.kind # "Ok" THEN [none EXCEPT !.kind = svd.kind]
       ELSE LET s == matrix_mul(matrix_mul(svd.u, svd.sigma).m, svd.v).m
                inv == invert_2d("i32", s)
            IN IF inv.kind # "Ok" THEN [none EXCEPT !.kind = inv.kind]
               ELSE LET q == matrix_mul(m, inv.m) IN
                      IF ~q.ok THEN none
                      ELSE [kind |-> "Ok", q |-> q.m, s |-> s]

\* ---------------------------------------------------------------- engine
AnimOps == {"move_along_parametric", "rotate", "move_to", "multiply_by_matrix"}

NoCall ==
    [pc |-> "idle", op |-> "-", obj |-> "-", current_frame |-> 0, fps |-> 0,
     img_width |-> 0, img_height |-> 0, frames |-> 0,
     param |-> Param("const", <<0, 0>>, <<0, 0>>, 0), t_min |-> 0, t_max |-> 0,
     i |-> 0, duration |-> 0]

\* let frames: u32 = (duration * fps as f32) as u32, the duration given in
\* halves of a second; the cast truncates
Frames(d2, fps) == (d2 * fps) \div 2

\* move_along_parametric up to the creation of the pool: the missing-context
\* error, the snapshot taken under the lock, the frame count and the two
\* shared cells
Begin(c, o, op, d2, param, t_min, t_max) ==
    /\ IF objs[o].context = << >>
       THEN /\ result' = Res(op, o, "ErrNoContext")
            /\ clean' = FALSE
            /\ UNCHANGED <<call, tasks, completed_frames, error_flag, written>>
       ELSE /\ lock = << >>
            /\ IF poisoned
               THEN /\ result' = Res(op, o, "ErrLock")
                    /\ clean' = FALSE
                    /\ UNCHANGED <<call, tasks, completed_frames, error_flag,
                                   written>>
               ELSE /\ Frames(d2, Scr.fps) <= MaxFrames
                    /\ call' = [call EXCEPT ![c] =
                          [pc |-> "spawn", op |-> op, obj |-> o,
                           current_frame |-> Scr.current_frame,
                           fps |-> Scr.fps,
                           img_width |-> Scr.width, img_height |-> Scr.height,
                           frames |-> Frames(d2, Scr.fps),
                           param |-> param, t_min |-> t_min, t_max |-> t_max,
                           i |-> 0, duration |-> d2]]
                    /\ tasks' = [tasks EXCEPT ![c] = << >>]
                    /\ completed_frames' = [completed_frames EXCEPT ![c] = 0]
                    /\ error_flag' = [error_flag EXCEPT ![c] = FALSE]
                    /\ written' = [written EXCEPT ![c] = {}]
                    /\ result' = Res(op, o, "running")
                    /\ UNCHANGED clean
    /\ UNCHANGED <<screen, poisoned, lock, objs, files, rewrites>>

\* an animation method called by a thread that is not inside one
Enter(c, o, op, d2, param, t_min, t_max) ==
    /\ call[c].pc = "idle"
    /\ rts[c] = << >>
    /\ objs[o].live
    /\ objs[o].context # << >> =>
          Scr.current_frame + Frames(d2, Scr.fps) <= MaxCounter
    /\ Begin(c, o, op, d2, param, t_min, t_max)
    /\ UNCHANGED rts

\* Vector2D::move_along_parametric called by the user with its own closure
MoveAlongParametric(c, o, d2, p) ==
    Enter(c, o, "move_along_parametric", d2, Param("const", p, p, 0), 0, 1)

\* Vector2D::move_to
MoveTo(c, o, d2, p) ==
    Enter(c, o, "move_to", d2, Param("lerp", <<objs[o].x, objs[o].y>>, p, 0), 0, 1)

\* the samples of a rotation by angle fall on whole quarter turns
WholeTurns(angle, frames) ==
    IF frames <= 1 THEN TRUE ELSE angle % (frames - 1) = 0

\* Vector2D::rotate by angle (in quarter turns) about center
Rotate(c, o, d2, angle, center) ==
    /\ screen # << >> => WholeTurns(angle, Frames(d2, Scr.fps))
    /\ Enter(c, o, "rotate", d2,
             Param("rotate", <<objs[o].x, objs[o].y>>, center, angle), 0, angle)

\* Vector2D::multiply_by_matrix: (matrix * self.clone()).unwrap() comes first
MultiplyByMatrix(c, o, d2, m) ==
    LET r == matrix_mul_vector2d(m, objs[o]) IN
      IF r.ok
      THEN Enter(c, o, "multiply_by_matrix", d2,
                 Param("lerp", <<objs[o].x, objs[o].y>>, <<r.v.x, r.v.y>>, 0), 0, 1)
      ELSE /\ call[c].pc = "idle"
           /\ rts[c] = << >>
           /\ objs[o].live
           /\ result' = Res("multiply_by_matrix", o, "panic")
           /\ clean' = FALSE
           /\ UNCHANGED <<screen, poisoned, lock, objs, files, call, tasks,
                          completed_frames, error_flag, written, rts, rewrites>>

\* Vector2D::rotate_then_scale up to the start of its rotation stage: the
\* decomposition (?), then self.multiply_by_matrix(duration / 2.0, q).  d2 is
\* the duration of one stage in halves of a second.
RotateThenScale(c, o, d2, m) ==
    /\ call[c].pc = "idle"
    /\ rts[c] = << >>
    /\ objs[o].live
    /\ \E pd \in {polar_decomposition_2d(m)} :
       LET r == matrix_mul_vector2d(pd.q, objs[o])
       IN IF pd.kind # "Ok"
          THEN /\ result' = Res("rotate_then_scale", o,
                                IF pd.kind = "Err" THEN "Err" ELSE "panic")
               /\ clean' = FALSE
               /\ UNCHANGED <<screen, poisoned, lock, objs, files, call, tasks,
                              completed_frames, error_flag, written, rts,
                              rewrites>>
          ELSE IF ~r.ok
          THEN /\ result' = Res("multiply_by_matrix", o, "panic")
               /\ clean' = FALSE
               /\ UNCHANGED <<screen, poisoned, lock, objs, files, call, tasks,
                              completed_frames, error_flag, written, rts,
                              rewrites>>
          ELSE /\ objs[o].context # << >> =>
                     Scr.current_frame + 2 * Frames(d2, Scr.fps) <= MaxStageCounter
               /\ Begin(c, o, "multiply_by_matrix", d2,
                        Param("lerp", <<objs[o].x, objs[o].y>>,
                              <<r.v.x, r.v.y>>, 0), 0, 1)
               /\ rts' = IF call'[c].pc = "spawn"
                         THEN [rts EXCEPT ![c] =
                                 <<[obj |-> o, q |-> pd.q, s |-> pd.s,
                                    duration |-> d2, stage |-> "rotation",
                                    current_frame |-> Scr.current_frame]>>]
                         ELSE rts

\* rotate_then_scale after its rotation stage returned Ok:
\* let mid = (q * self.clone())?; mid.multiply_by_matrix(duration / 2.0, s)
ScalingStage(c) ==
    /\ call[c].pc = "idle"
    /\ rts[c] # << >>
    /\ rts[c][1].stage = "between"
    /\ LET a == rts[c][1]
           mid == matrix_mul_vector2d(a.q, objs[a.obj])
           r == matrix_mul_vector2d(a.s, mid.v)
       IN IF ~mid.ok \/ ~r.ok
          THEN /\ result' = IF ~mid.ok
                            THEN Res("rotate_then_scale", a.obj, "Err")
                            ELSE Res("multiply_by_matrix", a.obj, "panic")
               /\ clean' = FALSE
               /\ rts' = [rts EXCEPT ![c] = << >>]
               /\ UNCHANGED <<screen, poisoned, lock, objs, files, call, tasks,
                              completed_frames, error_flag, written, rewrites>>
          ELSE /\ Begin(c, a.obj, "multiply_by_matrix", a.duration,
                        Param("lerp", <<mid.v.x, mid.v.y>>, <<r.v.x, r.v.y>>, 0),
                        0, 1)
               /\ rts' = IF call'[c].pc = "spawn"
                         THEN [rts EXCEPT ![c] = <<[a EXCEPT !.stage = "scaling"]>>]
                         ELSE [rts EXCEPT ![c] = << >>]

\* one iteration of for i in 0..frames: thread_pool.execute(frame_generator)
Execute(c) ==
    /\ call[c].pc = "spawn"
    /\ call[c].i < call[c].frames
    /\ tasks' = [tasks EXCEPT ![c] = Append(@, "queued")]
    /\ call' = [call EXCEPT ![c].i = @ + 1]
    /\ UNCHANGED <<screen, poisoned, lock, objs, result, files,
                   completed_frames, error_flag, written, rewrites, clean, rts>>

Terminal == {"ok", "err", "panic"}
Running(c) == {k \in 1..Len(tasks[c]) : tasks[c][k] \notin Terminal \cup {"queued"}}

\* ThreadPool: a worker takes the oldest queued job when one of the fps
\* workers is free
PoolCanRun(c, i) ==
    /\ i + 1 \in 1..Len(tasks[c])
    /\ tasks[c][i + 1] = "queued"
    /\ \A k \in 1..i : tasks[c][k] # "queued"
    /\ Cardinality(Running(c)) < call[c].fps

\* ThreadPool::drop returns when every queued job has finished
PoolJoined(c) == \A k \in 1..Len(tasks[c]) : tasks[c][k] \in Terminal

SetTask(c, i, pc) == tasks' = [tasks EXCEPT ![c][i + 1] = pc]
SetError(c) == error_flag' = [error_flag EXCEPT ![c] = TRUE]
TaskAt(c, i, pc) == i + 1 \in 1..Len(tasks[c]) /\ tasks[c][i + 1] = pc

\* TaskStart that drops a queued task once the error flag is set
TaskStartUnlessFailed(c, i) ==
    /\ PoolCanRun(c, i)
    /\ SetTask(c, i, IF error_flag[c] THEN "err" ELSE "run")
    /\ UNCHANGED <<screen, poisoned, lock, objs, result, files, call,
                   completed_frames, error_flag, written, rewrites, clean, rts>>

\* frame_generator starts: the image, t and the sample (x, y) are task-local
TaskStart(c, i) ==
    /\ PoolCanRun(c, i)
    /\ SetTask(c, i, "run")
    /\ UNCHANGED <<screen, poisoned, lock, objs, result, files, call,
                   completed_frames, error_flag, written, rewrites, clean, rts>>

\* match context.lock(): lock() acquires the mutex also when it is poisoned,
\* and then the guard sits inside the PoisonError.  The scrutinee is a
\* temporary that lives to the end of the match, so the Err(_) arm runs with
\* the context still locked.
TaskLock(c, i) ==
    /\ TaskAt(c, i, "run")
    /\ lock = << >>
    /\ lock' = <<c, i>>
    /\ SetTask(c, i, IF poisoned THEN "lock_err" ELSE "axis")
    /\ UNCHANGED <<screen, poisoned, objs, result, files, call,
                   completed_frames, error_flag, written, rewrites, clean, rts>>

\* the Err(_) arm: error_flag.lock().unwrap(), *error = true, return; the
\* return drops the PoisonError and with it the guard of the context
TaskLockErr(c, i) ==
    /\ TaskAt(c, i, "lock_err")
    /\ lock = <<c, i>>
    /\ lock' = << >>
    /\ SetError(c)
    /\ SetTask(c, i, "err")
    /\ UNCHANGED <<screen, poisoned, objs, result, files, call,
                   completed_frames, written, rewrites, clean, rts>>

\* fill_background, draw_axis and drop(context_lock).  draw_axis unwraps
\* Quality::new(img.width(), img.height()) while the guard is held.
TaskAxis(c, i) ==
    /\ TaskAt(c, i, "axis")
    /\ lock = <<c, i>>
    /\ lock' = << >>
    /\ IF Quality_new(call[c].img_width, call[c].img_height) = << >>
       THEN /\ poisoned' = TRUE
            /\ SetTask(c, i, "panic")
       ELSE /\ SetTask(c, i, "attach")
            /\ UNCHANGED poisoned
    /\ UNCHANGED <<screen, objs, result, files, call, completed_frames,
                   error_flag, written, rewrites, clean, rts>>

\* let mut v = Vector2D::new(x, y, *color); v.add_context(context.clone())
TaskAttach(c, i) ==
    /\ TaskAt(c, i, "attach")
    /\ lock = << >>
    /\ LET xy == Sample(call[c], i) IN
         IF poisoned
         THEN /\ SetTask(c, i, "panic")
              /\ UNCHANGED error_flag
         ELSE IF ~can_contain(Scr, xy[1], xy[2])
         THEN /\ SetError(c)
              /\ SetTask(c, i, "err")
         ELSE /\ SetTask(c, i, "draw")
              /\ UNCHANGED error_flag
    /\ UNCHANGED <<screen, poisoned, lock, objs, result, files, call,
                   completed_frames, written, rewrites, clean, rts>>

\* v.draw(v.color, &mut img): v has a context, draw_vector locks it (unwrap)
\* and unwraps Quality::new under the guard
TaskDraw(c, i) ==
    /\ TaskAt(c, i, "draw")
    /\ lock = << >>
    /\ IF poisoned
       THEN /\ SetTask(c, i, "panic")
            /\ UNCHANGED poisoned
       ELSE IF Quality_new(call[c].img_width, call[c].img_height) = << >>
       THEN /\ SetTask(c, i, "panic")
            /\ poisoned' = TRUE
       ELSE /\ SetTask(c, i, "save")
            /\ UNCHANGED poisoned
    /\ UNCHANGED <<screen, lock, objs, result, files, call, completed_frames,
                   error_flag, written, rewrites, clean, rts>>

\* the file name without the task's offset
FrameIndexNoOffset(cl, i) == cl.current_frame

\* the index in the file name of task i: current_frame + i
FrameIndex(cl, i) == cl.current_frame + i

\* TaskSave that also advances the frame counter for every saved frame
TaskSaveAdvance(c, i) ==
    /\ TaskAt(c, i, "save")
    /\ \/ /\ files' = files \cup {FrameIndex(call[c], i)}
          /\ written' = [written EXCEPT ![c] = @ \cup {FrameIndex(call[c], i)}]
          /\ rewrites' = (rewrites \/ FrameIndex(call[c], i) \in files)
          /\ completed_frames' = [completed_frames EXCEPT ![c] = @ + 1]
          /\ screen' = <<[Scr EXCEPT !.current_frame = @ + 1]>>
          /\ SetTask(c, i, "ok")
          /\ UNCHANGED error_flag
       \/ /\ SetError(c)
          /\ SetTask(c, i, "err")
          /\ UNCHANGED <<files, written, rewrites, completed_frames, screen>>
    /\ UNCHANGED <<poisoned, lock, objs, result, call, clean, rts>>

\* img.save(format!("{}/tmp/frame_{:03}.png", ..)): Ok counts the frame,
\* Err (an I/O failure) sets the error flag
TaskSave(c, i) ==
    /\ TaskAt(c, i, "save")
    /\ \/ /\ files' = files \cup {FrameIndex(call[c], i)}
          /\ written' = [written EXCEPT ![c] = @ \cup {FrameIndex(call[c], i)}]
          /\ rewrites' = (rewrites \/ FrameIndex(call[c], i) \in files)
          /\ completed_frames' = [completed_frames EXCEPT ![c] = @ + 1]
          /\ SetTask(c, i, "ok")
          /\ UNCHANGED error_flag
       \/ /\ SetError(c)
          /\ SetTask(c, i, "err")
          /\ UNCHANGED <<files, written, rewrites, completed_frames>>
    /\ UNCHANGED <<screen, poisoned, lock, objs, result, call, clean, rts>>

\* the pool outlives the block: the cells are read without the join
PoolDropNoJoin(c) ==
    /\ call[c].pc = "spawn"
    /\ call[c].i = call[c].frames
    /\ call' = [call EXCEPT ![c].pc = "inspect"]
    /\ UNCHANGED <<screen, poisoned, lock, objs, result, files, tasks,
                   completed_frames, error_flag, written, rewrites, clean, rts>>

\* the end of the block that owns the pool: the pool is dropped, which
\* joins the workers, before the shared cells are read
PoolDrop(c) ==
    /\ call[c].pc = "spawn"
    /\ call[c].i = call[c].frames
    /\ PoolJoined(c)
    /\ call' = [call EXCEPT ![c].pc = "inspect"]
    /\ UNCHANGED <<screen, poisoned, lock, objs, result, files, tasks,
                   completed_frames, error_flag, written, rewrites, clean, rts>>

\* the call returns (or unwinds): its activation and the shared cells are dropped
Return(c) ==
    /\ call' = [call EXCEPT ![c] = NoCall]
    /\ tasks' = [tasks EXCEPT ![c] = << >>]
    /\ completed_frames' = [completed_frames EXCEPT ![c] = 0]
    /\ error_flag' = [error_flag EXCEPT ![c] = FALSE]
    /\ written' = [written EXCEPT ![c] = {}]

\* rotate_then_scale after one of its two multiply_by_matrix calls returned:
\* Ok from the rotation stage goes on (the statement after the first ?),
\* every other return ends rotate_then_scale with the same value
RtsAfter(c, ok) ==
    IF rts[c] # << >> /\ ok /\ rts[c][1].stage = "rotation"
    THEN [rts EXCEPT ![c] = <<[@[1] EXCEPT !.stage = "between"]>>]
    ELSE [rts EXCEPT ![c] = << >>]

ResFrames(cl, completed) ==
    [op |-> cl.op, obj |-> cl.obj, res |-> "ErrFrames", arg |-> 0,
     completed |-> completed, total |-> cl.frames]

\* Inspect that tests the error flag only
InspectFlagOnly(c) ==
    /\ call[c].pc = "inspect"
    /\ LET completed == completed_frames[c]
           has_error == error_flag[c]
       IN IF has_error
          THEN /\ result' = ResFrames(call[c], completed)
               /\ clean' = FALSE
               /\ Return(c)
               /\ rts' = RtsAfter(c, FALSE)
          ELSE /\ call' = [call EXCEPT ![c].pc = "commit"]
               /\ UNCHANGED <<result, clean, tasks, completed_frames,
                              error_flag, written, rts>>
    /\ UNCHANGED <<screen, poisoned, lock, objs, files, rewrites>>

\* the two cells are read; has_error || completed != frames returns
\* "Frame generation failed. Completed: {}, Total: {}"
Inspect(c) ==
    /\ call[c].pc = "inspect"
    /\ LET completed == completed_frames[c]
           has_error == error_flag[c]
       IN IF has_error \/ completed # call[c].frames
          THEN /\ result' = ResFrames(call[c], completed)
               /\ clean' = FALSE
               /\ Return(c)
               /\ rts' = RtsAfter(c, FALSE)
          ELSE /\ call' = [call EXCEPT ![c].pc = "commit"]
               /\ UNCHANGED <<result, clean, tasks, completed_frames,
                              error_flag, written, rts>>
    /\ UNCHANGED <<screen, poisoned, lock, objs, files, rewrites>>

\* Commit that advances to the index of the last frame
CommitLastIndex(c) ==
    /\ call[c].pc = "commit"
    /\ lock = << >>
    /\ LET r == change_current_frame(Scr, call[c].current_frame + call[c].frames - 1) IN
         IF poisoned \/ ~r.ok
         THEN /\ result' = Res(call[c].op, call[c].obj, "panic")
              /\ clean' = FALSE
              /\ poisoned' = TRUE
              /\ rts' = RtsAfter(c, FALSE)
              /\ UNCHANGED screen
         ELSE /\ screen' = <<r.s>>
              /\ result' = Res(call[c].op, call[c].obj, "Ok")
              /\ rts' = RtsAfter(c, TRUE)
              /\ UNCHANGED <<clean, poisoned>>
    /\ Return(c)
    /\ UNCHANGED <<lock, objs, files, rewrites>>

\* context.lock().unwrap().change_current_frame(current_frame + frames).unwrap():
\* the second unwrap panics while context_lock is alive, which poisons the mutex
Commit(c) ==
    /\ call[c].pc = "commit"
    /\ lock = << >>
    /\ LET r == change_current_frame(Scr, call[c].current_frame + call[c].frames) IN
         IF poisoned \/ ~r.ok
         THEN /\ result' = Res(call[c].op, call[c].obj, "panic")
              /\ clean' = FALSE
              /\ poisoned' = TRUE
              /\ rts' = RtsAfter(c, FALSE)
              /\ UNCHANGED screen
         ELSE /\ screen' = <<r.s>>
              /\ result' = Res(call[c].op, call[c].obj, "Ok")
              /\ rts' = RtsAfter(c, TRUE)
              /\ UNCHANGED <<clean, poisoned>>
    /\ Return(c)
    /\ UNCHANGED <<lock, objs, files, rewrites>>

\* ChangeCurrentFrame that also accepts val == current_frame
ChangeCurrentFrameOrEqual(val) ==
    /\ screen # << >>
    /\ Idle
    /\ lock = << >>
    /\ LET ok == val >= Scr.current_frame IN
         /\ screen' = IF ok THEN <<[Scr EXCEPT !.current_frame = val]>> ELSE screen
         /\ result' = [Res("change_current_frame", "-",
                           IF ok THEN "Ok" ELSE "Err") EXCEPT !.arg = val]
    /\ clean' = FALSE
    /\ UNCHANGED <<poisoned, lock, objs, files, call, tasks, completed_frames,
                   error_flag, written, rewrites, rts>>

\* Screen2D::change_current_frame used on its own (crate-internal API)
ChangeCurrentFrame(val) ==
    /\ screen # << >>
    /\ Idle
    /\ lock = << >>
    /\ LET r == change_current_frame(Scr, val) IN
         /\ screen' = <<r.s>>
         /\ result' = [Res("change_current_frame", "-",
                           IF r.ok THEN "Ok" ELSE "Err") EXCEPT !.arg = val]
    /\ clean' = FALSE
    /\ UNCHANGED <<poisoned, lock, objs, files, call, tasks, completed_frames,
                   error_flag, written, rewrites, rts>>

DurationHalves == 0..MaxFrames
CounterInputs == 0..MaxCounter
TaskIds == 0..(MaxFrames - 1)

Init ==
    /\ screen = << >>
    /\ poisoned = FALSE
    /\ lock = << >>
    /\ objs = [o \in Objs |-> NoObj]
    /\ result = Res("-", "-", "-")
    /\ files = {}
    /\ call = [c \in Callers |-> NoCall]
    /\ tasks = [c \in Callers |-> << >>]
    /\ completed_frames = [c \in Callers |-> 0]
    /\ error_flag = [c \in Callers |-> FALSE]
    /\ written = [c \in Callers |-> {}]
    /\ rts = [c \in Callers |-> << >>]
    /\ rewrites = FALSE
    /\ clean = TRUE

\* the frame engine: one context, one object, animation calls
Next ==
    \/ \E xr \in XRanges, yr \in YRanges, fps \in FpsInputs, wh \in Resolutions :
          ScreenNew(xr, yr, fps, wh)
    \/ \E xr \in XRanges, yr \in YRanges : ChangeDimensions(xr, yr)
    \/ \E val \in CounterInputs : ChangeCurrentFrame(val)
    \/ \E o \in EngineObjs, p \in Points : NewVector(o, p)
    \/ \E o \in EngineObjs : AddContext(o)
    \/ \E o \in EngineObjs, wh \in Resolutions : Draw(o, wh)
    \/ \E c \in MainThread, o \in EngineObjs, d2 \in DurationHalves, p \in Points :
          MoveAlongParametric(c, o, d2, p)
    \/ \E c \in MainThread, o \in EngineObjs, d2 \in DurationHalves, p \in Points :
          MoveTo(c, o, d2, p)
    \/ \E c \in MainThread, o \in EngineObjs, d2 \in DurationHalves,
          angle \in RotateAngles : Rotate(c, o, d2, angle, <<0, 0>>)
    \/ \E c \in MainThread, o \in EngineObjs, d2 \in DurationHalves, m \in Matrices :
          MultiplyByMatrix(c, o, d2, m)
    \/ \E c \in MainThread : Execute(c)
    \/ \E c \in MainThread, i \in TaskIds : TaskStart(c, i)
    \/ \E c \in MainThread, i \in TaskIds : TaskLock(c, i)
    \/ \E c \in MainThread, i \in TaskIds : TaskLockErr(c, i)
    \/ \E c \in MainThread, i \in TaskIds : TaskAxis(c, i)
    \/ \E c \in MainThread, i \in TaskIds : TaskAttach(c, i)
    \/ \E c \in MainThread, i \in TaskIds : TaskDraw(c, i)
    \/ \E c \in MainThread, i \in TaskIds : TaskSave(c, i)
    \/ \E c \in MainThread : PoolDrop(c)
    \/ \E c \in MainThread : Inspect(c)
    \/ \E c \in MainThread : Commit(c)

Spec == Init /\ [][Next]_vars

\* a step of the call of thread c: of its loop, of one of its frame tasks on
\* a pool worker, or of its tail
EngineStep(c) ==
    \/ Execute(c)
    \/ \E i \in TaskIds :
          \/ TaskStart(c, i)
          \/ TaskLock(c, i)
          \/ TaskLockErr(c, i)
          \/ TaskAxis(c, i)
          \/ TaskAttach(c, i)
          \/ TaskDraw(c, i)
          \/ TaskSave(c, i)
    \/ PoolDrop(c)
    \/ Inspect(c)
    \/ Commit(c)

\* the frame engine under fair scheduling: a call that can take a step
\* eventually takes one
SpecFair == Spec /\ \A c \in MainThread : WF_vars(EngineStep(c))

\* rotate_then_scale: one context, one object, the two-stage animation
NextStages ==
    \/ \E xr \in XRanges, yr \in YRanges, fps \in FpsInputs, wh \in Resolutions :
          ScreenNew(xr, yr, fps, wh)
    \/ \E o \in EngineObjs, p \in Points : NewVector(o, p)
    \/ \E o \in EngineObjs : AddContext(o)
    \/ \E c \in MainThread, o \in EngineObjs, d2 \in DurationHalves,
          m \in PolarMatrices : RotateThenScale(c, o, d2, m)
    \/ \E c \in MainThread : ScalingStage(c)
    \/ \E c \in MainThread : Execute(c)
    \/ \E c \in MainThread, i \in TaskIds : TaskStart(c, i)
    \/ \E c \in MainThread, i \in TaskIds : TaskLock(c, i)
    \/ \E c \in MainThread, i \in TaskIds : TaskLockErr(c, i)
    \/ \E c \in MainThread, i \in TaskIds : TaskAxis(c, i)
    \/ \E c \in MainThread, i \in TaskIds : TaskAttach(c, i)
    \/ \E c \in MainThread, i \in TaskIds : TaskDraw(c, i)
    \/ \E c \in MainThread, i \in TaskIds : TaskSave(c, i)
    \/ \E c \in MainThread : PoolDrop(c)
    \/ \E c \in MainThread : Inspect(c)
    \/ \E c \in MainThread : Commit(c)

SpecStages == Init /\ [][NextStages]_vars

\* the object each thread animates
ThreadObj == [c \in Callers |-> IF c = "main" THEN "v" ELSE "w"]
\* durations of the concurrent calls, in halves of a second
ThreadDurations == {1, 2}

\* two threads: each calls move_along_parametric on its own object, both
\* objects attached to the one context
NextThreads ==
    \/ \E xr \in XRanges, yr \in YRanges :
          ScreenNew(xr, yr, 2, <<1920, 1080>>)
    \/ \E o \in Objs : NewVector(o, <<1, 1>>)
    \/ \E o \in Objs : AddContext(o)
    \/ \E c \in Callers, d2 \in ThreadDurations :
          MoveAlongParametric(c, ThreadObj[c], d2, <<1, 1>>)
    \/ \E c \in Callers : Execute(c)
    \/ \E c \in Callers, i \in TaskIds : TaskStart(c, i)
    \/ \E c \in Callers, i \in TaskIds : TaskLock(c, i)
    \/ \E c \in Callers, i \in TaskIds : TaskLockErr(c, i)
    \/ \E c \in Callers, i \in TaskIds : TaskAxis(c, i)
    \/ \E c \in Callers, i \in TaskIds : TaskAttach(c, i)
    \/ \E c \in Callers, i \in TaskIds : TaskDraw(c, i)
    \/ \E c \in Callers, i \in TaskIds : TaskSave(c, i)
    \/ \E c \in Callers : PoolDrop(c)
    \/ \E c \in Callers : Inspect(c)
    \/ \E c \in Callers : Commit(c)

SpecThreads == Init /\ [][NextThreads]_vars

\* the object algebra: construction, attach, draw and the operators
NextAlg ==
    \/ \E xr \in XRanges, yr \in YRanges :
          ScreenNew(xr, yr, 2, <<1920, 1080>>)
    \/ \E xr \in XRanges, yr \in YRanges : ChangeDimensions(xr, yr)
    \/ \E o \in Objs, p \in Points : NewVector(o, p)
    \/ \E o \in Objs : AddContext(o)
    \/ \E o \in Objs, wh \in Resolutions : Draw(o, wh)
    \/ \E a \in Objs, b \in Objs : Add(a, b)
    \/ \E o \in Objs, s \in Scalars : MulScalar(o, s)
    \/ \E m \in Matrices, o \in Objs : MatMul(m, o)

SpecAlg == Init /\ [][NextAlg]_vars

\* ---------------------------------------------------------------- pixels
\* Quality::resolution
resolution(quality) ==
    CASE quality = "LOW" -> <<to_f64(854), to_f64(480)>>
      [] quality = "MEDIUM" -> <<to_f64(1280), to_f64(720)>>
      [] quality = "HIGH" -> <<to_f64(1920), to_f64(1080)>>
      [] OTHER -> <<to_f64(3840), to_f64(2160)>>

\* Quality::usable: 95% of the resolution
usable(quality) ==
    <<FMul(Q(95, 100), resolution(quality)[1]),
      FMul(Q(95, 100), resolution(quality)[2])>>

\* get_center_pixels with the two bounds of the x axis swapped in ratio_x
get_center_pixels_swapped(s) ==
    LET ratio_x == FDiv(FAbs(to_f64(s.x_axis[2])),
                        FAdd(FAbs(to_f64(s.x_axis[2])), FAbs(to_f64(s.x_axis[1]))))
        ratio_y == FDiv(FAbs(to_f64(s.y_axis[2])),
                        FAdd(FAbs(to_f64(s.y_axis[2])), FAbs(to_f64(s.y_axis[1]))))
    IN <<FMul(to_f64(s.width), ratio_x), FMul(to_f64(s.height), ratio_y)>>

\* Screen2D::get_center_pixels
get_center_pixels(s) ==
    LET ratio_x == FDiv(FAbs(to_f64(s.x_axis[1])),
                        FAdd(FAbs(to_f64(s.x_axis[2])), FAbs(to_f64(s.x_axis[1]))))
        ratio_y == FDiv(FAbs(to_f64(s.y_axis[2])),
                        FAdd(FAbs(to_f64(s.y_axis[2])), FAbs(to_f64(s.y_axis[1]))))
    IN <<FMul(to_f64(s.width), ratio_x), FMul(to_f64(s.height), ratio_y)>>

\* util::interpolate: the y scale divides by |y_axis.0| + |x_axis.1|
interpolate(quality, s, x, y) ==
    LET usable_res == usable(quality)
        center == get_center_pixels(s)
        scaling_factor ==
            <<FDiv(usable_res[1],
                   FAdd(FAbs(to_f64(s.x_axis[1])), FAbs(to_f64(s.x_axis[2])))),
              FDiv(usable_res[2],
                   FAdd(FAbs(to_f64(s.y_axis[1])), FAbs(to_f64(s.x_axis[2]))))>>
    IN <<FAdd(FMul(x, scaling_factor[1]), center[1]),
         FAdd(FMul(FNeg(y), scaling_factor[2]), center[2])>>

\* the result of applying a function of the numeric layer to arg
Out(op, arg, out) ==
    [op |-> op, obj |-> "-", res |-> out, arg |-> arg, completed |-> 0, total |-> 0]

Qualities == {"LOW", "MEDIUM", "HIGH", "ULTRA"}
\* the four supported resolutions
Supported == {<<854, 480>>, <<1280, 720>>, <<1920, 1080>>, <<3840, 2160>>}
\* axis ranges of the pixel mapping; <<3, 3>> is invalid
PixelXRanges == {<<-10, 10>>, <<-10, 0>>, <<-20, 15>>, <<0, 4>>, <<1, 5>>, <<3, 3>>}
PixelYRanges == {<<-10, 15>>, <<-10, 10>>, <<0, 10>>, <<-3, 0>>, <<-5, -1>>}

GetCenterPixels ==
    /\ screen # << >>
    /\ result' = Out("get_center_pixels", 0, get_center_pixels(Scr))
    /\ UNCHANGED <<screen, poisoned, lock, objs, engine>>

\* world points handed to interpolate
PixelPoints == {<<0, 0>>, <<1, 1>>, <<3, -2>>}

\* interpolate(quality, screen, (x, y))
Interpolate(quality, p) ==
    /\ screen # << >>
    /\ result' = Out("interpolate", [quality |-> quality, p |-> p],
                     interpolate(quality, Scr, to_f64(p[1]), to_f64(p[2])))
    /\ UNCHANGED <<screen, poisoned, lock, objs, engine>>

\* the pixel mapping: a screen, its axis ranges, and the two functions
NextPixels ==
    \/ \E xr \in PixelXRanges, yr \in PixelYRanges, wh \in Supported :
          ScreenNew(xr, yr, 1, wh)
    \/ \E xr \in PixelXRanges, yr \in PixelYRanges : ChangeDimensions(xr, yr)
    \/ GetCenterPixels
    \/ \E quality \in Qualities, p \in PixelPoints : Interpolate(quality, p)

SpecPixels == Init /\ [][NextPixels]_vars

\* ---------------------------------------------------------------- inputs
Entries == (-MaxEntry)..MaxEntry
Bits == {0, 1}
MatricesOf(rows, cols, E) == [1..rows -> [1..cols -> E]]
\* matrices handed to the functions of Matrix: every 1x1 and 2x2 matrix over
\* Entries, and the 1x2, 2x1, 2x3 and 3x3 matrices over {0, 1}
LinMatrices ==
    MatricesOf(1, 1, Entries) \cup MatricesOf(2, 2, Entries)
      \cup MatricesOf(1, 2, Bits) \cup MatricesOf(2, 1, Bits)
      \cup MatricesOf(2, 3, Bits) \cup MatricesOf(3, 3, Bits)
\* vectors of dimension 1 to 3 over Entries
LinVectors == UNION {[1..n -> Entries] : n \in 1..3}
NumTypes == {"i32", "f64"}

\* identity(n) * A and A * identity(n) for a square matrix A of size n
IdentityMul ==
    /\ result.op = "input"
    /\ result.arg.kind = "matrix"
    /\ get_dimensions(result.arg.val)[1] = get_dimensions(result.arg.val)[2]
    /\ LET a == result.arg.val
           id == identity(get_dimensions(a)[1])[1]
       IN result' = Out("identity_mul", a, <<matrix_mul(id, a), matrix_mul(a, id)>>)
    /\ UNCHANGED <<screen, poisoned, lock, objs, engine>>

Normalize ==
    /\ result.op = "input"
    /\ result.arg.kind = "vector"
    /\ result' = Out("normalize", result.arg.val, normalize(result.arg.val))
    /\ UNCHANGED <<screen, poisoned, lock, objs, engine>>

Invert2d(T) ==
    /\ result.op = "input"
    /\ result.arg.kind = "matrix"
    /\ result' = Out("invert_2d", [T |-> T, m |-> result.arg.val],
                     invert_2d(T, result.arg.val))
    /\ UNCHANGED <<screen, poisoned, lock, objs, engine>>

Eigenvectors2d ==
    /\ result.op = "input"
    /\ result.arg.kind = "matrix"
    /\ result' = Out("eigenvectors_2d", result.arg.val,
                     eigenvectors_2d(result.arg.val))
    /\ UNCHANGED <<screen, poisoned, lock, objs, engine>>

\* the linear-algebra layer: a matrix or a vector is drawn, one function is
\* applied to it
InitLin ==
    /\ screen = << >>
    /\ poisoned = FALSE
    /\ lock = << >>
    /\ objs = [o \in Objs |-> NoObj]
    /\ \/ \E m \in LinMatrices :
             result = Out("input", [kind |-> "matrix", val |-> m], "-")
       \/ \E v \in LinVectors :
             result = Out("input", [kind |-> "vector", val |-> v], "-")
    /\ files = {}
    /\ call = [c \in Callers |-> NoCall]
    /\ tasks = [c \in Callers |-> << >>]
    /\ completed_frames = [c \in Callers |-> 0]
    /\ error_flag = [c \in Callers |-> FALSE]
    /\ written = [c \in Callers |-> {}]
    /\ rts = [c \in Callers |-> << >>]
    /\ rewrites = FALSE
    /\ clean = TRUE

PolarDecomposition2d ==
    /\ result.op = "input"
    /\ result.arg.kind = "matrix"
    /\ result' = Out("polar_decomposition_2d", result.arg.val,
                     polar_decomposition_2d(result.arg.val))
    /\ UNCHANGED <<screen, poisoned, lock, objs, engine>>

NextLin ==
    \/ IdentityMul
    \/ Normalize
    \/ \E T \in NumTypes : Invert2d(T)
    \/ Eigenvectors2d
    \/ PolarDecomposition2d

SpecLin == InitLin /\ [][NextLin]_vars

\* ================================================================ claims
OkTasks(c) == {k \in 1..Len(tasks[c]) : tasks[c][k] = "ok"}
FailedTasks(c) == {k \in 1..Len(tasks[c]) : tasks[c][k] \in {"err", "panic"}}
Counter == IF screen = << >> THEN 0 ELSE Scr.current_frame

\* C1: a call that returns Ok after requesting F frames at counter K has
\* written exactly the F files K, K+1, .., K+F-1 and leaves the counter at K+F
C1_SuccessWritesAllFrames ==
    [][\A c \in Callers :
         (call[c].pc = "commit" /\ result'.res = "Ok") =>
            /\ written[c] = {call[c].current_frame + i : i \in 0..(call[c].frames - 1)}
            /\ Cardinality(written[c]) = call[c].frames
            /\ written[c] \subseteq files'
            /\ screen'[1].current_frame = call[c].current_frame + call[c].frames
      ]_vars

\* a call of at least two frames has returned Ok
C1_Witness ==
    /\ result.op \in AnimOps
    /\ result.res = "Ok"
    /\ Counter >= 2
    /\ files = 0..(Counter - 1)

\* C2: when a frame task of the batch has failed, the call returns the
\* frame-generation error, the counter is still K, completed is the number
\* of tasks that saved their frame and total is F
C2_FailureReportsCounts ==
    [][\A c \in Callers :
         (call[c].pc = "inspect" /\ FailedTasks(c) # {}) =>
            /\ result'.res = "ErrFrames"
            /\ result'.op = call[c].op
            /\ call'[c].pc = "idle"
            /\ screen' = screen
            /\ Scr.current_frame = call[c].current_frame
            /\ result'.completed = Cardinality(OkTasks(c))
            /\ result'.total = call[c].frames
      ]_vars

\* a call of three frames has failed after one or two frames were saved
C2_Witness ==
    /\ result.res = "ErrFrames"
    /\ result.total = 3
    /\ result.completed \in {1, 2}

\* C3: the frame counter never decreases
C3_CounterMonotonic ==
    [][screen # << >> =>
         /\ screen' # << >>
         /\ screen'[1].current_frame >= Scr.current_frame]_vars

\* after the counter has advanced, a request to move it back was rejected
C3_Witness ==
    /\ Counter >= 2
    /\ result.op = "change_current_frame"
    /\ result.res = "Err"

\* C4: the shared cells are read, and the call returns, only after all F
\* tasks of the batch have been queued and have finished
C4_JoinBeforeInspect ==
    \A c \in Callers :
       call[c].pc \in {"inspect", "commit"} =>
          /\ Len(tasks[c]) = call[c].frames
          /\ \A k \in 1..Len(tasks[c]) : tasks[c][k] \in Terminal

\* a batch of three frames on a pool of two workers is being inspected
C4_Witness ==
    \E c \in Callers :
       /\ call[c].pc = "inspect"
       /\ call[c].frames = 3
       /\ call[c].fps = 2

\* C5: while a call is in progress the context changes only in the one
\* commit step, which advances the frame counter and nothing else, after
\* all F tasks have saved their frame
C5_SingleMutation ==
    [][\A c \in Callers :
         (call[c].pc # "idle" /\ screen' # screen) =>
            /\ call[c].pc = "commit"
            /\ call'[c].pc = "idle"
            /\ Cardinality(OkTasks(c)) = call[c].frames
            /\ screen' = <<[Scr EXCEPT !.current_frame =
                               call[c].current_frame + call[c].frames]>>
      ]_vars

\* a call has committed on a context that saw a failed call before
C5_Witness ==
    /\ result.op \in AnimOps
    /\ result.res = "Ok"
    /\ ~clean
    /\ Counter >= 1

\* C6: within a call task i writes index current_frame + i, distinct tasks
\* write distinct indices, and while every call so far was successful no
\* index is written twice and the indices on disk are 0 .. counter-1 (plus
\* those of the call in progress)
C6_UniqueFrameIndices ==
    /\ \A c \in Callers :
          /\ written[c] = {call[c].current_frame + (k - 1) : k \in OkTasks(c)}
          /\ Cardinality(written[c]) = Cardinality(OkTasks(c))
    /\ clean =>
          /\ ~rewrites
          /\ files = (0..(Counter - 1)) \cup UNION {written[c] : c \in Callers}

\* a second successful call in a row has saved two frames
C6_Witness ==
    /\ clean
    /\ \E c \in Callers :
          /\ call[c].current_frame > 0
          /\ Cardinality(written[c]) = 2

\* C7: add_context on an Unattached object attaches it if and only if
\* can_contain holds; outside the axis ranges it returns an error and the
\* object stays Unattached
C7_AttachIffContained ==
    [][\A o \in Objs :
         (/\ Idle
          /\ objs[o].live
          /\ objs[o].context = << >>
          /\ result'.op = "add_context"
          /\ result'.obj = o) =>
            LET fits == can_contain(Scr, to_f64(objs[o].x), to_f64(objs[o].y)) IN
              /\ (objs'[o].context # << >>) <=> fits
              /\ fits => result'.res = "Ok"
              /\ ~fits => (result'.res = "Err" /\ objs'[o].context = << >>)
      ]_vars

\* C8: draw, move_along_parametric, rotate, move_to and multiply_by_matrix
\* on an Unattached object return the missing-context error, spawn no task,
\* write no file and leave the context alone
C8_UnattachedIsMissingContext ==
    [][\A o \in Objs :
         (/\ Idle
          /\ objs[o].live
          /\ objs[o].context = << >>
          /\ result'.op \in AnimOps \cup {"draw"}
          /\ result'.obj = o) =>
            /\ result'.res = "ErrNoContext"
            /\ UNCHANGED <<screen, files, call, tasks>>
      ]_vars

\* C9: an object that has a context has coordinates inside the axis ranges
\* of that context
C9_AttachedInRange ==
    \A o \in Objs :
       (objs[o].live /\ objs[o].context # << >>) =>
          can_contain(Scr, to_f64(objs[o].x), to_f64(objs[o].y))

\* C10: every screen that exists has x_min < x_max and y_min < y_max
C10_RangesValid ==
    screen # << >> =>
       /\ Scr.x_axis[1] < Scr.x_axis[2]
       /\ Scr.y_axis[1] < Scr.y_axis[2]

\* change_dimensions has rejected a pair of ranges on the narrow screen
C10_Witness ==
    /\ screen # << >>
    /\ result.op = "change_dimensions"
    /\ result.res = "Err"
    /\ Scr.x_axis = <<-1, 1>>

\* C11: change_current_frame(v) returns Ok and sets the counter to v exactly
\* when v > current_frame; for v <= current_frame (v == current_frame
\* included) it returns an error and the screen is unchanged
C11_AdvanceOnlyForward ==
    [][(Idle /\ result'.op = "change_current_frame") =>
         IF result'.arg > Scr.current_frame
         THEN /\ result'.res = "Ok"
              /\ screen' = <<[Scr EXCEPT !.current_frame = result'.arg]>>
         ELSE /\ result'.res = "Err"
              /\ screen' = screen
      ]_vars

\* a request to set the counter to the value it already has was rejected
C11_Witness ==
    /\ result.op = "change_current_frame"
    /\ result.res = "Err"
    /\ Counter >= 1
    /\ result.arg = Counter

\* C12: no task of a batch is cancelled: a queued task only ever starts to
\* run, also after the error flag of its batch is set, so all F tasks have
\* run when the cells are read; a recorded failure only makes the call
\* return the error without the counter advance
C12_NoCancellation ==
    /\ [](\A c \in Callers :
            (call[c].pc = "inspect" /\ error_flag[c]) =>
               /\ Len(tasks[c]) = call[c].frames
               /\ \A k \in 1..Len(tasks[c]) : tasks[c][k] \in Terminal)
    /\ [][\A c \in Callers :
            /\ \A k \in 1..Len(tasks[c]) :
                  (call'[c].pc # "idle" /\ tasks[c][k] = "queued") =>
                     tasks'[c][k] \in {"queued", "run"}
            /\ (call[c].pc = "inspect" /\ error_flag[c]) =>
                  /\ result'.res = "ErrFrames"
                  /\ screen' = screen
         ]_vars

\* on a pool of two workers the first task has failed, the second one is
\* still running, and the third one, which could only start on the worker
\* the failed task gave back, has saved its frame all the same
C12_Witness ==
    \E c \in Callers :
       /\ call[c].fps = 2
       /\ error_flag[c]
       /\ Len(tasks[c]) = 3
       /\ tasks[c][1] = "err"
       /\ tasks[c][2] \notin Terminal \cup {"queued"}
       /\ tasks[c][3] = "ok"

\* C13: a frame task that panics while it holds the guard of the context
\* (in draw_axis or in draw_vector) does not poison the mutex, so the other
\* tasks of the batch still get the guard, and the caller returns the
\* frame-generation error
C13_PanicDoesNotPoison ==
    [][\A c \in Callers :
         /\ \A k \in 1..Len(tasks[c]) :
               (/\ call'[c].pc # "idle"
                /\ ~poisoned
                /\ tasks[c][k] \in {"axis", "draw"}
                /\ tasks'[c][k] = "panic") => ~poisoned'
         /\ (call[c].pc = "inspect" /\ FailedTasks(c) # {}) =>
               result'.res = "ErrFrames"
      ]_vars

\* C14: a screen only exists with one of the four supported resolutions,
\* so no frame task renders with another width/height pair
C14_ResolutionValidated ==
    /\ screen # << >> => Quality_new(Scr.width, Scr.height) # << >>
    /\ \A c \in Callers :
          call[c].pc # "idle" =>
             Quality_new(call[c].img_width, call[c].img_height) # << >>

\* C15: on every valid screen and for every supported resolution,
\* interpolate of the world origin (0, 0) is equal to get_center_pixels
C15_OriginIsCenter ==
    (screen # << >> /\ result.op = "interpolate" /\ result.arg.p = <<0, 0>>) =>
       /\ FEq(result.res[1], get_center_pixels(Scr)[1])
       /\ FEq(result.res[2], get_center_pixels(Scr)[2])

\* C16: get_center_pixels is (width * |x_min| / (|x_min| + |x_max|),
\* height * |y_max| / (|y_max| + |y_min|)), and (960, 648) for the ranges
\* (-10, 10), (-10, 15) at 1920x1080
C16_CenterFormula ==
    (screen # << >> /\ result.op = "get_center_pixels") =>
       LET cx == result.res[1]
           cy == result.res[2]
           xsum == Abs(Scr.x_axis[1]) + Abs(Scr.x_axis[2])
           ysum == Abs(Scr.y_axis[2]) + Abs(Scr.y_axis[1])
       IN /\ ~cx.nan /\ ~IsInf(cx) /\ ~cy.nan /\ ~IsInf(cy)
          /\ cx.n * xsum = Scr.width * Abs(Scr.x_axis[1]) * cx.d
          /\ cy.n * ysum = Scr.height * Abs(Scr.y_axis[2]) * cy.d
          /\ (/\ Scr.x_axis = <<-10, 10>> /\ Scr.y_axis = <<-10, 15>>
              /\ Scr.width = 1920 /\ Scr.height = 1080) =>
                (FEq(cx, to_f64(960)) /\ FEq(cy, to_f64(648)))

\* the center of the screen (-10, 10), (-10, 15) at 1920x1080 was computed
C16_Witness ==
    /\ screen # << >>
    /\ result.op = "get_center_pixels"
    /\ Scr.x_axis = <<-10, 10>> /\ Scr.y_axis = <<-10, 15>>
    /\ Scr.width = 1920 /\ Scr.height = 1080
    /\ FEq(result.res[2], to_f64(648))

\* C17: for every square matrix A of size n with bounded integer entries,
\* identity(n) * A = A and A * identity(n) = A
C17_IdentityNeutral ==
    result.op = "identity_mul" =>
       /\ result.res[1].ok /\ result.res[1].m = result.arg
       /\ result.res[2].ok /\ result.res[2].m = result.arg

\* both products were computed for a 2x2 matrix that is not symmetric
C17_Witness ==
    /\ result.op = "identity_mul"
    /\ get_dimensions(result.arg) = <<2, 2>>
    /\ result.arg[1][2] = 2
    /\ result.arg[2][1] = -1

IsZeroVector(v) == \A i \in 1..Len(v) : v[i] = 0

\* C18: normalize of a non-zero vector (integer types included) is Ok and
\* its result has norm one(); normalize of a zero vector is the
\* degenerate-value error
C18_NormalizeUnit ==
    result.op = "normalize" =>
       IF IsZeroVector(result.arg)
       THEN result.res.kind = "Err"
       ELSE /\ result.res.kind = "Ok"
            /\ norm(result.res.v) = 1

\* m * r is the 2x2 identity
IsInverse(T, m, r) ==
    IF T = "i32"
    THEN matrix_mul(m, r).m = identity(2)[1]
    ELSE \A i \in 1..2, j \in 1..2 :
            FEq(FAdd(FMul(to_f64(m[i][1]), r[1][j]),
                     FMul(to_f64(m[i][2]), r[2][j])),
                to_f64(IF i = j THEN 1 ELSE 0))

\* C19: invert_2d returns an error value (no panic, no Ok) when the matrix
\* is not 2x2 or its determinant is zero, and the inverse otherwise
C19_InvertErrors ==
    result.op = "invert_2d" =>
       LET m == result.arg.m IN
         IF get_dimensions(m) # <<2, 2>> \/ determinant(m).v = 0
         THEN result.res.kind = "Err"
         ELSE /\ result.res.kind = "Ok"
              /\ IsInverse(result.arg.T, m, result.res.m)

\* C20: eigenvectors_2d never panics: it returns an error value when the
\* matrix is not 2x2 and when a candidate eigenvector is the zero vector
C20_EigenvectorsErrors ==
    result.op = "eigenvectors_2d" =>
       LET m == result.arg IN
         /\ result.res.kind # "panic"
         /\ get_dimensions(m) # <<2, 2>> => result.res.kind = "Err"
         /\ (/\ get_dimensions(m) = <<2, 2>>
             /\ \/ IsZeroVector(eigen_candidates(m)[1])
                \/ IsZeroVector(eigen_candidates(m)[2])) =>
               result.res.kind = "Err"

\* C21: containment is not re-validated per frame: the frame task that has
\* its sample (x_i, y_i) goes on to draw it and records no error, whether
\* or not the sample lies inside the axis ranges
C21_NoPerFrameContainment ==
    [][\A c \in Callers, i \in TaskIds :
          (TaskAt(c, i, "attach") /\ ~poisoned /\ tasks'[c] # tasks[c]
             /\ i + 1 \in 1..Len(tasks'[c]) /\ tasks'[c][i + 1] # "attach") =>
             /\ tasks'[c][i + 1] = "draw"
             /\ error_flag'[c] = error_flag[c]]_vars

\* C22: in a call of F >= 1 frames every sample time t_i is a defined number,
\* t_0 = t_min and t_{F-1} = t_max
C22_SampleTimesDefined ==
    \A c \in Callers :
       (call[c].pc # "idle" /\ call[c].frames >= 1) =>
          LET F == call[c].frames
              t(i) == SampleTime(i, F, call[c].t_min, call[c].t_max)
          IN /\ \A i \in 0..(F - 1) : ~t(i).nan
             /\ t(0).n = call[c].t_min * t(0).d
             /\ t(F - 1).n = call[c].t_max * t(F - 1).d

\* duration * fps rounded to the nearest integer, the duration in halves of
\* a second
Round(d2, fps) == (d2 * fps + 1) \div 2

\* C23: the frame count of a call is round(duration * fps)
C23_FrameCountRounded ==
    \A c \in Callers :
       call[c].pc # "idle" => call[c].frames = Round(call[c].duration, call[c].fps)

\* (x, y) rotated about center by t quarter turns
Rotated(from, center, t) ==
    LET dx == to_f64(from[1] - center[1])
        dy == to_f64(from[2] - center[2])
    IN <<QAdd(QSub(QMul(dx, Cos(t)), QMul(dy, Sin(t))), to_f64(center[1])),
         QAdd(QAdd(QMul(dx, Sin(t)), QMul(dy, Cos(t))), to_f64(center[2]))>>

SameNumber(a, b) == ~a.nan /\ ~b.nan /\ a.n * b.d = b.n * a.d

\* C25: every sample of rotate is the object's position rotated about center
\* by the sample time t_i, so the first sample is the position itself and the
\* last one is the position rotated by angle
C25_RotateSamples ==
    \A c \in Callers :
       (call[c].pc # "idle" /\ call[c].op = "rotate" /\ call[c].frames >= 2) =>
          \A i \in 0..(call[c].frames - 1) :
             LET t == SampleTime(i, call[c].frames, call[c].t_min, call[c].t_max)
                 xy == Sample(call[c], i)
                 r == Rotated(call[c].param.from, call[c].param.to, t)
             IN SameNumber(xy[1], r[1]) /\ SameNumber(xy[2], r[2])

\* C29: a call of 0 frames on an attached object returns without panicking,
\* writes no file and leaves the frame counter unchanged
C29_ZeroFramesReturns ==
    [][\A c \in Callers :
          (call[c].pc # "idle" /\ call[c].frames = 0 /\ call'[c].pc = "idle") =>
             /\ result'.res # "panic"
             /\ files' = files
             /\ screen' = screen]_vars

\* C30: an addition always completes: it returns Ok with the coordinate-wise
\* sum, which carries the context of the left operand, also when both
\* operands are attached to the one shared context
C30_AddCompletes ==
    [][result'.op = "add" =>
          /\ result'.res = "Ok"
          /\ lock' = lock /\ poisoned' = poisoned
          /\ LET a == result'.obj IN
               \E b \in Objs :
                  /\ objs[b].live
                  /\ objs'[a].x = objs[a].x + objs[b].x
                  /\ objs'[a].y = objs[a].y + objs[b].y
                  /\ objs'[a].context = objs[a].context]_vars

RECURSIVE Gcd(_, _)
Gcd(a, b) == IF b = 0 THEN a ELSE Gcd(b, a % b)

\* a finite number in lowest terms
Reduce(a) ==
    LET g == Gcd(Abs(a.n), a.d) IN Q(a.n \div g, a.d \div g)

IsFinite(a) == ~a.nan /\ ~IsInf(a)

\* C24: on a valid screen interpolate maps (x, y) to (x * sx + cx,
\* -y * sy + cy) with (cx, cy) = get_center_pixels, sx = 0.95 * width /
\* (|x_min| + |x_max|) and sy = 0.95 * height / (|y_min| + |y_max|)
C24_ScalePerAxis ==
    (/\ screen # << >>
     /\ result.op = "interpolate"
     /\ Quality_new(Scr.width, Scr.height) = <<result.arg.quality>>) =>
       LET p == result.arg.p
           center == get_center_pixels(Scr)
           sx == FDiv(FMul(Q(95, 100), to_f64(Scr.width)),
                      to_f64(Abs(Scr.x_axis[1]) + Abs(Scr.x_axis[2])))
           sy == FDiv(FMul(Q(95, 100), to_f64(Scr.height)),
                      to_f64(Abs(Scr.y_axis[1]) + Abs(Scr.y_axis[2])))
           px == FAdd(FMul(to_f64(p[1]), sx), center[1])
           py == FAdd(FMul(to_f64(-p[2]), sy), center[2])
       IN /\ IsFinite(result.res[1]) /\ IsFinite(px)
          /\ Reduce(result.res[1]) = Reduce(px)
          /\ IsFinite(result.res[2]) /\ IsFinite(py)
          /\ Reduce(result.res[2]) = Reduce(py)

\* the frame count of one stage of the rotate_then_scale activation a
StageFrames(a) == Frames(a.duration, Scr.fps)

\* C26: in rotate_then_scale the scaling stage starts only after the
\* rotation stage has committed its frames K..K+F1-1, it snapshots the
\* counter K+F1, and its commit leaves K+F1..K+F1+F2-1 written and the
\* counter at K+F1+F2; a failing decomposition or rotation stage returns an
\* error value and no scaling frame is written
C26_StagesInOrder ==
    [][\A c \in Callers :
          /\ (/\ rts[c] # << >> /\ rts[c][1].stage # "scaling"
              /\ rts'[c] # << >> /\ rts'[c][1].stage = "scaling") =>
                LET a == rts[c][1] IN
                  /\ a.stage = "between"
                  /\ result.res = "Ok"
                  /\ Counter = a.current_frame + StageFrames(a)
                  /\ a.current_frame..(Counter - 1) \subseteq files
                  /\ call'[c].current_frame = Counter
                  /\ call'[c].param.from =
                        <<matrix_mul_vector2d(a.q, objs[a.obj]).v.x,
                          matrix_mul_vector2d(a.q, objs[a.obj]).v.y>>
          /\ (/\ rts[c] # << >> /\ rts[c][1].stage = "scaling"
              /\ call[c].pc = "commit" /\ result'.res = "Ok") =>
                LET a == rts[c][1]
                    K == a.current_frame
                    F == StageFrames(a)
                IN /\ written[c] = (K + F)..(K + 2 * F - 1)
                   /\ K..(K + 2 * F - 1) \subseteq files'
                   /\ Counter' = K + 2 * F
          /\ (rts[c] = << >> /\ call[c].pc = "idle"
              /\ result'.op = "rotate_then_scale") =>
                (result'.res = "Err" /\ files' = files)
          /\ (/\ rts[c] # << >> /\ rts[c][1].stage = "rotation"
              /\ rts'[c] = << >>) =>
                /\ result'.res \in {"ErrFrames", "ErrLock", "ErrNoContext"}
                /\ files' = files]_vars

\* C27: with two calls running concurrently on the one context no frame
\* index is written by both, no call panics at its commit, and every commit
\* advances the counter by the frame count of its call, so that two calls of
\* F1 and F2 frames started at K leave it at K + F1 + F2
C27_ConcurrentCalls ==
    /\ [](/\ \A c \in Callers, e \in Callers :
                c # e => written[c] \cap written[e] = {}
          /\ clean => ~rewrites)
    /\ [][\A c \in Callers :
             (call[c].pc = "commit" /\ call[c].frames >= 1 /\ call'[c].pc = "idle") =>
                /\ result'.res = "Ok"
                /\ Counter' = Counter + call[c].frames]_vars

\* C28: a frame task never takes the lock of the completed counter or of
\* the error flag (the step that ends it as "ok" or "err") while it holds
\* the context, and every call in progress eventually returns
C28_DeadlockFreeTermination ==
    /\ [][\A c \in Callers, i \in TaskIds :
             (/\ i + 1 \in 1..Len(tasks[c])
              /\ Len(tasks'[c]) = Len(tasks[c])
              /\ tasks'[c][i + 1] # tasks[c][i + 1]
              /\ tasks'[c][i + 1] \in {"ok", "err"}) =>
                lock # <<c, i>>]_vars
    /\ \A c \in Callers : (call[c].pc # "idle") ~> (call[c].pc = "idle")

====
